---- MODULE Spec2Model ----
(***************************************************************************)
(* The analysis request / response lifecycle of the React front end:       *)
(* App (state, handleRunAnalysis), the useFetch hook (fetchData), the Hero *)
(* start button and the ControlBar (config edits, Run button).             *)
(*                                                                         *)
(* Every React event handler runs to completion and its state updates are  *)
(* flushed before the next event, so a handler is one action.  An await is *)
(* a suspension point: a call of handleRunAnalysis is suspended in         *)
(* `pending` between its steps, and user events interleave there.          *)
(***************************************************************************)
EXTENDS Integers, FiniteSets, Sequences, TLC

VARIABLES
    dev,              \* import.meta.env.DEV, fixed by the build
    showHero,         \* App state
    heroPresent,      \* the Hero element is in the DOM (AnimatePresence keeps
                      \* it, with its last props, while its exit animation runs)
    analysisConfig,   \* App state
    isAnalyzing,      \* App state
    analysisResults,  \* App state
    loading,          \* useFetch state
    error,            \* useFetch state
    crashed,          \* a render threw: React unmounted the tree
    pending,          \* the suspended calls of handleRunAnalysis
    issued,           \* number of fetchData calls made so far
    runs,             \* number of run actions (Hero start, ControlBar run)
    clock,            \* logical wall clock read by the mock branch
    logged,           \* the error last written by console.error
    activeLayer,      \* MapPanel state
    activeTab         \* ChartPanel state

vars == <<dev, showHero, heroPresent, analysisConfig, isAnalyzing,
          analysisResults, loading, error, crashed, pending, issued, runs,
          clock, logged, activeLayer, activeTab>>

-----------------------------------------------------------------------------
(* Bounds *)

MaxRuns == 2          \* run actions explored
TicksPerDay == 2      \* resolution of a Date's time value within one day

-----------------------------------------------------------------------------
(* Dates.  A Date is its time value in ticks; InvalidTime is the NaN time  *)
(* value of an Invalid Date.                                               *)

YearDays == 365
NowDay == YearDays + 1
Now == NowDay * TicksPerDay + 1          \* Date.now(): not at midnight
InvalidTime == 0 - 1

\* new Date(e.target.value) for the value of an <input type="date">: "" for a
\* cleared field, else a calendar day, parsed as that day's UTC midnight.
EmptyValue == 0 - 1
NewDate(value) == IF value = EmptyValue THEN InvalidTime ELSE value * TicksPerDay

\* date.toISOString(): "<date>T<time>Z"; throws RangeError on an Invalid Date.
CanFormat(t) == t # InvalidTime
toISOString(t) == [date |-> t \div TicksPerDay, time |-> t % TicksPerDay]

\* The values the user can give a date input.
DateInputs == {NowDay - YearDays, NowDay + 1, EmptyValue}

-----------------------------------------------------------------------------
(* Config *)

\* (mutant) an area button whose id is not the catalog's key
AreasMisspelt == {"amazon", "jakarta", "californa"}

Areas == {"amazon", "jakarta", "california"}
Features == {"deforestation", "heatIslands", "vegetation"}

InitialConfig ==
    [aoi |-> "amazon",
     dateRange |-> [start |-> Now - YearDays * TicksPerDay, end |-> Now],
     features |-> [f \in Features |-> TRUE]]

\* (mutant) spreads the defaults instead of the current config
updateConfigFromDefaults(config, key, value) ==
    [InitialConfig EXCEPT ![key] = value]

updateConfig(config, key, value) == [config EXCEPT ![key] = value]

\* (mutant) flags that exclude each other: switching one on switches the rest off
updateFeatureExclusive(config, feature, enabled) ==
    [config EXCEPT !.features =
        [f \in Features |-> IF f = feature THEN enabled
                            ELSE config.features[f] /\ ~enabled]]

updateFeature(config, feature, enabled) ==
    [config EXCEPT !.features = [config.features EXCEPT ![feature] = enabled]]

\* A click on a FeatureToggle: onChange(!enabled), wired to updateFeature.
Toggled(config, feature) ==
    updateFeature(config, feature, ~config.features[feature])

\* ControlBar's render reads both dates through toISOString().
ControlBarRenders(config) ==
    CanFormat(config.dateRange.start) /\ CanFormat(config.dateRange.end)

\* JSON.stringify(analysisConfig): a Date serializes through toJSON, which is
\* toISOString for a valid Date.
Stringify(config) ==
    [aoi |-> config.aoi,
     dateRange |-> [start |-> toISOString(config.dateRange.start),
                    end |-> toISOString(config.dateRange.end)],
     features |-> config.features]

-----------------------------------------------------------------------------
(* Results, response bodies and errors.  JSON numbers are kept in          *)
(* hundredths (3.8 is 380, -0.13 is -13, 94 is 9400), so that they are     *)
(* integers.                                                               *)

Null == [json |-> "null"]

\* The canned payload of the mock branch, stamped with the time it is built.
MockResult(timestamp) ==
    [json |-> "object",
     timestamp |-> timestamp,
     deforestationRate |-> 380,
     heatIslands |-> 500,
     ndviChange |-> 0 - 13,
     confidence |-> 9400,
     imageCount |-> 1200,
     cloudCover |-> 1500,
     processingTime |-> "2.3",
     deforestation |->
        [coordinates |-> << <<0 - 1030, 0 - 6320>>, <<0 - 1030, 0 - 6310>>,
                            <<0 - 1020, 0 - 6310>>, <<0 - 1020, 0 - 6320>> >>,
         area |-> 25000]]

\* What a backend can answer: a full result without the optional geometry
\* that brings a measured series for the deforestation chart, the empty object, a JSON array (valid JSON that is no result at all), and
\* a body that is not JSON.
ServerResult ==
    [json |-> "object", timestamp |-> 0, deforestationRate |-> 120,
     heatIslands |-> 0, ndviChange |-> 4, confidence |-> 8800,
     imageCount |-> 700, cloudCover |-> 0, processingTime |-> "0.9",
     series |-> [deforestation |->
                    <<[date |-> <<2024, 6>>, forestCover |-> 9000],
                      [date |-> <<2024, 12>>, forestCover |-> 8850]>>]]
EmptyObject == [json |-> "object"]
EmptyArray == [json |-> "array"]
ResponseBodies ==
    {[parses |-> TRUE, value |-> ServerResult],
     [parses |-> TRUE, value |-> EmptyObject],
     [parses |-> TRUE, value |-> EmptyArray],
     [parses |-> FALSE]}

\* Statuses a fetch can resolve with, on both sides of each edge of 2xx.
Statuses == {200, 299, 300, 404, 500}
\* (mutant) no upper edge: every status from 200 on counts as success
okNoUpperEdge(status) == status >= 200

ok(status) == status >= 200 /\ status <= 299

NoResponse == [status |-> 0]

NoError == [null |-> TRUE]
NetworkError == [text |-> "Failed to fetch"]
JsonSyntaxError == [text |-> "Unexpected token in JSON"]
HttpErrorMessage(status) == [text |-> "HTTP error! status: ", status |-> status]

AnalyzeUrl == "/api/analyze"
\* (mutant) the canned payload whatever the build
UseMockAlways(devFlag, url) == url = "/api/analyze"

UseMock(devFlag, url) == devFlag /\ url = "/api/analyze"

TypeOK ==
    /\ dev \in BOOLEAN /\ showHero \in BOOLEAN /\ heroPresent \in BOOLEAN
    /\ isAnalyzing \in BOOLEAN /\ loading \in BOOLEAN /\ crashed \in BOOLEAN
    /\ analysisConfig.aoi \in Areas
    /\ issued \in 0..MaxRuns /\ runs \in 0..MaxRuns /\ clock \in 0..MaxRuns
    /\ \A c \in pending : c.id \in 1..issued /\ c.phase \in {"timer", "fetch", "json"}

Init ==
    /\ dev \in BOOLEAN
    /\ showHero = TRUE
    /\ heroPresent = TRUE
    /\ analysisConfig = InitialConfig
    /\ isAnalyzing = FALSE
    /\ analysisResults = Null
    /\ loading = FALSE
    /\ error = NoError
    /\ crashed = FALSE
    /\ pending = {}
    /\ issued = 0
    /\ runs = 0
    /\ clock = 0
    /\ logged = NoError
    /\ activeLayer = "satellite"
    /\ activeTab = "deforestation"

\* MapPanel and ChartPanel are mounted in the Layout while isAnalyzing is
\* false (App renders the Loader in their place otherwise).  The state of a
\* component that is not mounted does not exist: activeLayer and activeTab
\* then hold what useState gives the next mount.
Layers == {"satellite", "ndvi", "temperature", "deforestation"}
Tabs == {"deforestation", "vegetation", "temperature", "risk"}

\* (mutant) panels that are hidden, not removed, and so keep their state
PanelsKept == UNCHANGED <<activeLayer, activeTab>>

PanelsUnmounted ==
    /\ activeLayer' = "satellite"
    /\ activeTab' = "deforestation"

-----------------------------------------------------------------------------
(* handleRunAnalysis and fetchData, up to the first await *)

\* An object is a function from its keys; { ...a, ...b } is Spread(a, b): the
\* keys of both, with b's value where both have the key.
Spread(a, b) == b @@ a

DefaultHeaders == "Content-Type" :> "application/json"

\* ...options.headers: the spread of undefined adds nothing.
HeadersOf(options) ==
    IF "headers" \in DOMAIN options THEN options.headers ELSE <<>>

\* The init object fetchData passes to fetch():
\* { headers: { 'Content-Type': ..., ...options.headers }, ...options }.
FetchInit(options) ==
    Spread([headers |-> Spread(DefaultHeaders, HeadersOf(options))], options)

\* (mutant) the options of a GET without a body
RunOptionsGet(config) == [method |-> "GET"]

\* The options handleRunAnalysis calls fetchData with.
RunOptions(config) == [method |-> "POST", body |-> Stringify(config)]

\* fetchData's prologue and the request it starts.
fetchDataCall(url, options) ==
    /\ loading' = TRUE
    /\ error' = NoError
    /\ issued' = issued + 1
    /\ pending' = pending \cup
          {[id |-> issued + 1, url |-> url, options |-> options,
            phase |-> IF UseMock(dev, url) THEN "timer" ELSE "fetch",
            response |-> NoResponse]}

\* (mutant) a handler that leaves showHero as it is
handleRunAnalysisKeepingHero(options) ==
    /\ runs < MaxRuns
    /\ runs' = runs + 1
    /\ isAnalyzing' = TRUE
    /\ fetchDataCall(AnalyzeUrl, options)
    /\ PanelsUnmounted
    /\ UNCHANGED <<dev, showHero, heroPresent, analysisConfig, analysisResults,
                   crashed, clock, logged>>

\* handleRunAnalysis for a caller's options.
handleRunAnalysisWith(options) ==
    /\ runs < MaxRuns
    /\ runs' = runs + 1
    /\ showHero' = FALSE
    /\ isAnalyzing' = TRUE
    /\ fetchDataCall(AnalyzeUrl, options)
    /\ PanelsUnmounted
    /\ UNCHANGED <<dev, heroPresent, analysisConfig, analysisResults, crashed,
                   clock, logged>>

handleRunAnalysis(config) == handleRunAnalysisWith(RunOptions(config))

\* Hero's button calls onStart; it is there while Hero is in the DOM, its
\* exit animation included.
HeroStart ==
    /\ heroPresent
    /\ handleRunAnalysis(analysisConfig)

\* Hero's exit animation ends: AnimatePresence (mode "wait") drops Hero and
\* mounts Layout.
HeroExitComplete ==
    /\ ~showHero
    /\ heroPresent
    /\ heroPresent' = FALSE
    /\ UNCHANGED <<dev, showHero, analysisConfig, isAnalyzing, analysisResults,
                   loading, error, crashed, pending, issued, runs, clock, logged,
                   activeLayer, activeTab>>

LayoutShown == ~showHero /\ ~heroPresent /\ ~crashed

\* The Run button is disabled while isAnalyzing.
RunEnabled(analyzing) == ~analyzing

\* (mutant) a memoized handler that still holds the config of the first render
ControlBarRunStale ==
    /\ LayoutShown
    /\ RunEnabled(isAnalyzing)
    /\ handleRunAnalysis(InitialConfig)

ControlBarRun ==
    /\ LayoutShown
    /\ RunEnabled(isAnalyzing)
    /\ handleRunAnalysis(analysisConfig)

-----------------------------------------------------------------------------
(* ControlBar edits *)

\* onChange = setAnalysisConfig, then the re-render, which throws when a date
\* cannot be formatted; nothing catches it, so React unmounts the tree.
\* (mutant) an edit that also drops the held result
onChangeClearing(config) ==
    /\ analysisConfig' = config
    /\ crashed' = ~ControlBarRenders(config)
    /\ analysisResults' = Null
    /\ IF ControlBarRenders(config)
          THEN UNCHANGED <<activeLayer, activeTab>>
          ELSE PanelsUnmounted
    /\ UNCHANGED <<dev, showHero, heroPresent, isAnalyzing,
                   loading, error, pending, issued, runs, clock, logged>>

onChange(config) ==
    /\ analysisConfig' = config
    /\ crashed' = ~ControlBarRenders(config)
    /\ IF ControlBarRenders(config)
          THEN UNCHANGED <<activeLayer, activeTab>>
          ELSE PanelsUnmounted
    /\ UNCHANGED <<dev, showHero, heroPresent, isAnalyzing, analysisResults,
                   loading, error, pending, issued, runs, clock, logged>>

SelectArea(area) ==
    /\ LayoutShown
    /\ onChange(updateConfig(analysisConfig, "aoi", area))

EditStart(value) ==
    /\ LayoutShown
    /\ onChange(updateConfig(analysisConfig, "dateRange",
                  [analysisConfig.dateRange EXCEPT !.start = NewDate(value)]))

EditEnd(value) ==
    /\ LayoutShown
    /\ onChange(updateConfig(analysisConfig, "dateRange",
                  [analysisConfig.dateRange EXCEPT !.end = NewDate(value)]))

\* FeatureToggle's button calls onChange(!enabled).
ToggleFeature(feature) ==
    /\ LayoutShown
    /\ onChange(Toggled(analysisConfig, feature))

-----------------------------------------------------------------------------
(* Settling a call: the rest of fetchData and of handleRunAnalysis.  The   *)
(* continuations after an await run as microtasks, with no event between   *)
(* them.  Once the tree is unmounted every state setter is a no-op.        *)

\* fetchData: return data; finally setLoading(false).
fetchDataReturn ==
    /\ loading' = FALSE
    /\ UNCHANGED error

\* fetchData: catch (err) { setError(err.message); throw err }; finally.
fetchDataThrow(err) ==
    /\ error' = err
    /\ loading' = FALSE

\* (mutant) the new result is spread over the previous one
RunSucceededMerging(results) ==
    /\ analysisResults' = (results @@ analysisResults)
    /\ isAnalyzing' = FALSE

\* handleRunAnalysis: setAnalysisResults(results); finally setIsAnalyzing(false).
RunSucceeded(results) ==
    /\ analysisResults' = results
    /\ isAnalyzing' = FALSE

\* (mutant) the catch clears the held result
RunFailedClearing ==
    /\ analysisResults' = Null
    /\ isAnalyzing' = FALSE

\* handleRunAnalysis: catch logs to the console; finally setIsAnalyzing(false).
RunFailed ==
    /\ UNCHANGED analysisResults
    /\ isAnalyzing' = FALSE

Succeed(c, data) ==
    /\ pending' = pending \ {c}
    /\ IF crashed
          THEN UNCHANGED <<loading, error, analysisResults, isAnalyzing>>
          ELSE fetchDataReturn /\ RunSucceeded(data)
    /\ UNCHANGED <<dev, showHero, heroPresent, analysisConfig, crashed, issued,
                   runs, logged, activeLayer, activeTab>>

\* (mutant) a catch that sends the request once more before giving up
FailRetrying(c, err) ==
    /\ logged' = err
    /\ IF issued <= runs
          THEN /\ issued' = issued + 1
               /\ pending' = (pending \ {c}) \cup
                     {[c EXCEPT !.id = issued + 1, !.phase = "fetch",
                                !.response = NoResponse]}
               /\ UNCHANGED <<loading, error, analysisResults, isAnalyzing>>
          ELSE /\ pending' = pending \ {c}
               /\ UNCHANGED issued
               /\ IF crashed
                     THEN UNCHANGED <<loading, error, analysisResults,
                                      isAnalyzing>>
                     ELSE fetchDataThrow(err) /\ RunFailed
    /\ UNCHANGED <<dev, showHero, heroPresent, analysisConfig, crashed,
                   runs, clock, activeLayer, activeTab>>

Fail(c, err) ==
    /\ pending' = pending \ {c}
    /\ logged' = err
    /\ IF crashed
          THEN UNCHANGED <<loading, error, analysisResults, isAnalyzing>>
          ELSE fetchDataThrow(err) /\ RunFailed
    /\ UNCHANGED <<dev, showHero, heroPresent, analysisConfig, crashed, issued,
                   runs, clock, activeLayer, activeTab>>

\* (mutant) a mock that leaves out the rate when its feature is switched off
MockResolveByFeatures(c) ==
    /\ c.phase = "timer"
    /\ \E t \in {clock, clock + 1} :
          /\ clock' = t
          /\ Succeed(c, IF c.options.body.features["deforestation"]
                           THEN MockResult(t)
                           ELSE [MockResult(t) EXCEPT !.deforestationRate = 0])

\* The mock branch: the 2000 ms timer fires and the canned payload is built
\* with the current time, which is the time of the previous payload or later.
MockResolve(c) ==
    /\ c.phase = "timer"
    /\ \E t \in {clock, clock + 1} :
          /\ clock' = t
          /\ Succeed(c, MockResult(t))

\* fetch() rejects: no response at all.
FetchReject(c) ==
    /\ c.phase = "fetch"
    /\ Fail(c, NetworkError)

\* fetch() resolves with a response; a response that is not ok is thrown,
\* the body of one that is ok is read next.
FetchRespond(c, status, body) ==
    /\ c.phase = "fetch"
    /\ IF ok(status)
          THEN /\ pending' = (pending \ {c}) \cup
                     {[c EXCEPT !.phase = "json",
                                !.response = [status |-> status, body |-> body]]}
               /\ UNCHANGED <<dev, showHero, heroPresent, analysisConfig,
                              isAnalyzing, analysisResults, loading, error,
                              crashed, issued, runs, clock, logged,
                              activeLayer, activeTab>>
          ELSE Fail(c, HttpErrorMessage(status))

\* response.json() resolves with the parsed body.
JsonResolve(c) ==
    /\ c.phase = "json"
    /\ c.response.body.parses
    /\ UNCHANGED clock
    /\ Succeed(c, c.response.body.value)

\* response.json() rejects: the body is not JSON.
JsonReject(c) ==
    /\ c.phase = "json"
    /\ ~c.response.body.parses
    /\ Fail(c, JsonSyntaxError)

-----------------------------------------------------------------------------
(* MapPanel and ChartPanel selectors *)

PanelsMounted == LayoutShown /\ ~isAnalyzing

\* (mutant) a layer switch that fetches the analysis again
SetActiveLayerRefetching(layer) ==
    /\ PanelsMounted
    /\ issued < MaxRuns
    /\ activeLayer' = layer
    /\ fetchDataCall(AnalyzeUrl, RunOptions(analysisConfig))
    /\ UNCHANGED <<dev, showHero, heroPresent, analysisConfig, isAnalyzing,
                   analysisResults, crashed, runs, clock, logged, activeTab>>

\* MapPanel's layer buttons: setActiveLayer(layer.id).
SetActiveLayer(layer) ==
    /\ PanelsMounted
    /\ activeLayer' = layer
    /\ UNCHANGED <<dev, showHero, heroPresent, analysisConfig, isAnalyzing,
                   analysisResults, loading, error, crashed, pending, issued,
                   runs, clock, logged, activeTab>>

\* ChartPanel's tab buttons: setActiveTab(tab.id).
SetActiveTab(tab) ==
    /\ PanelsMounted
    /\ activeTab' = tab
    /\ UNCHANGED <<dev, showHero, heroPresent, analysisConfig, isAnalyzing,
                   analysisResults, loading, error, crashed, pending, issued,
                   runs, clock, logged, activeLayer>>

-----------------------------------------------------------------------------

(* The request lifecycle: up to MaxRuns runs, with the config edited through *)
(* the area buttons, one feature toggle and the clearing of the start date.  *)
LifecycleFeatures == {"deforestation"}
LifecycleDates == {EmptyValue}

Next ==
    \/ HeroStart
    \/ HeroExitComplete
    \/ ControlBarRun
    \/ \E area \in Areas : SelectArea(area)
    \/ \E value \in LifecycleDates : EditStart(value)
    \/ \E feature \in LifecycleFeatures : ToggleFeature(feature)
    \/ \E c \in pending : MockResolve(c)
    \/ \E c \in pending : FetchReject(c)
    \/ \E c \in pending, status \in Statuses, body \in ResponseBodies :
          FetchRespond(c, status, body)
    \/ \E c \in pending : JsonResolve(c)
    \/ \E c \in pending : JsonReject(c)

Spec == Init /\ [][Next]_vars

\* One step of a request towards its end: the timer fires, fetch() settles,
\* response.json() settles.
Settle(c) ==
    \/ MockResolve(c)
    \/ FetchReject(c)
    \/ \E status \in Statuses, body \in ResponseBodies :
          FetchRespond(c, status, body)
    \/ JsonResolve(c)
    \/ JsonReject(c)

\* The lifecycle with every issued request resolved or rejected in the end.
SpecLive == Spec /\ WF_vars(\E c \in pending : Settle(c))

(* The config editor: every edit the ControlBar offers, around a single run. *)
NextConfig ==
    \/ runs = 0 /\ HeroStart
    \/ HeroExitComplete
    \/ \E area \in Areas : SelectArea(area)
    \/ \E value \in DateInputs : EditStart(value)
    \/ \E value \in DateInputs : EditEnd(value)
    \/ \E feature \in Features : ToggleFeature(feature)
    \/ \E c \in pending : MockResolve(c)
    \/ \E c \in pending : FetchReject(c)
    \/ \E c \in pending, status \in Statuses, body \in ResponseBodies :
          FetchRespond(c, status, body)
    \/ \E c \in pending : JsonResolve(c)
    \/ \E c \in pending : JsonReject(c)

SpecConfig == Init /\ [][NextConfig]_vars

(* The panels: runs and their outcomes around the layer and tab selectors. *)
NextPanels ==
    \/ HeroStart
    \/ HeroExitComplete
    \/ ControlBarRun
    \/ \E layer \in Layers : SetActiveLayer(layer)
    \/ \E tab \in Tabs : SetActiveTab(tab)
    \/ \E c \in pending : MockResolve(c)
    \/ \E c \in pending : FetchReject(c)
    \/ \E c \in pending, status \in Statuses, body \in ResponseBodies :
          FetchRespond(c, status, body)
    \/ \E c \in pending : JsonResolve(c)
    \/ \E c \in pending : JsonReject(c)

SpecPanels == Init /\ [][NextPanels]_vars

(* The mock backend: a development build, every edit and up to MaxRuns runs. *)
InitMock == Init /\ dev

NextMock ==
    \/ HeroStart
    \/ HeroExitComplete
    \/ ControlBarRun
    \/ \E area \in Areas : SelectArea(area)
    \/ \E value \in DateInputs : EditStart(value)
    \/ \E value \in DateInputs : EditEnd(value)
    \/ \E feature \in Features : ToggleFeature(feature)
    \/ \E c \in pending : MockResolve(c)

SpecMock == InitMock /\ [][NextMock]_vars

(* The requests of a production build: every edit and up to MaxRuns runs,  *)
(* each request left without an answer until it is rejected.               *)
InitRequest == Init /\ ~dev

NextRequest ==
    \/ HeroStart
    \/ HeroExitComplete
    \/ ControlBarRun
    \/ \E area \in Areas : SelectArea(area)
    \/ \E value \in DateInputs : EditStart(value)
    \/ \E value \in DateInputs : EditEnd(value)
    \/ \E feature \in Features : ToggleFeature(feature)
    \/ \E c \in pending : FetchReject(c)

SpecRequest == InitRequest /\ [][NextRequest]_vars

(* fetchData under the options a caller can pass: a production build in    *)
(* which a caller like handleRunAnalysis makes one call at a time, with or *)
(* without headers of its own, and the call settles.                       *)
CallerHeaders ==
    {"Authorization" :> "Bearer token",
     "Accept" :> "text/csv",
     "Content-Type" :> "text/plain",
     ("Content-Type" :> "text/plain") @@ ("Authorization" :> "Bearer token")}

CallerOptions ==
    {RunOptions(InitialConfig)}
    \cup {[method |-> "POST", body |-> Stringify(InitialConfig), headers |-> h] :
             h \in CallerHeaders}
    \cup {[method |-> "GET", headers |-> h] : h \in CallerHeaders}

CallWith(options) ==
    /\ pending = {}
    /\ handleRunAnalysisWith(options)

InitFetch == Init /\ ~dev

NextFetch ==
    \/ \E options \in CallerOptions : CallWith(options)
    \/ \E c \in pending : FetchReject(c)
    \/ \E c \in pending, status \in Statuses, body \in ResponseBodies :
          FetchRespond(c, status, body)
    \/ \E c \in pending : JsonResolve(c)
    \/ \E c \in pending : JsonReject(c)

SpecFetch == InitFetch /\ [][NextFetch]_vars

-----------------------------------------------------------------------------
(* What App renders.  Of useFetch's { fetchData, loading, error } App takes *)
(* fetchData alone; the tree shows what App passes down as props.          *)

UseFetchDestructured == {"fetchData"}

Render ==
    IF crashed THEN [screen |-> "blank"]
    ELSE IF heroPresent THEN [screen |-> "Hero"]
    ELSE [screen |-> "Layout",
          ControlBar |-> [config |-> analysisConfig, isAnalyzing |-> isAnalyzing],
          main |-> IF isAnalyzing
                     THEN [Loader |-> TRUE]
                     ELSE [MapPanel |-> [results |-> analysisResults,
                                         config |-> analysisConfig],
                           ChartPanel |-> [results |-> analysisResults,
                                           config |-> analysisConfig]]]
          @@ (IF "error" \in UseFetchDestructured
                 THEN [error |-> error] ELSE <<>>)

-----------------------------------------------------------------------------
(* MapPanel's scene *)

\* The region catalog, coordinates in hundredths of a degree.
areaCoordinates ==
    [amazon |->
        [center |-> <<0 - 1000, 0 - 6300>>, zoom |-> 9,
         polygon |-> << <<0 - 1050, 0 - 6350>>, <<0 - 1050, 0 - 6250>>,
                        <<0 - 950, 0 - 6250>>, <<0 - 950, 0 - 6350>> >>],
     jakarta |->
        [center |-> <<0 - 620, 10680>>, zoom |-> 11,
         polygon |-> << <<0 - 640, 10670>>, <<0 - 640, 10700>>,
                        <<0 - 610, 10700>>, <<0 - 610, 10670>> >>],
     california |->
        [center |-> <<3750, 0 - 12100>>, zoom |-> 9,
         polygon |-> << <<3800, 0 - 12150>>, <<3800, 0 - 12050>>,
                        <<3700, 0 - 12050>>, <<3700, 0 - 12150>> >>]]

\* areaCoordinates[config.aoi] || areaCoordinates.amazon
currentArea(config) ==
    IF config.aoi \in DOMAIN areaCoordinates
       THEN areaCoordinates[config.aoi]
       ELSE areaCoordinates["amazon"]

\* (mutant) the overlay drawn whatever the layer
ShowsDeforestationAnyLayer(results, layer) ==
    /\ results # Null
    /\ "deforestation" \in DOMAIN results

\* results && activeLayer === 'deforestation' && results.deforestation:
\* null is falsy, an object or an array is truthy, a missing property is
\* undefined.
ShowsDeforestation(results, layer) ==
    /\ results # Null
    /\ layer = "deforestation"
    /\ "deforestation" \in DOMAIN results

\* What MapPanel puts on the map: the center and zoom, and the polygons with
\* the content of their popups.
MapPanel(results, config, layer) ==
    [center |-> currentArea(config).center,
     zoom |-> currentArea(config).zoom,
     polygons |->
        <<[positions |-> currentArea(config).polygon, popup |-> config.aoi]>>
        \o (IF ShowsDeforestation(results, layer)
               THEN <<[positions |-> results.deforestation.coordinates,
                       popup |-> results.deforestation.area]>>
               ELSE <<>>)]

-----------------------------------------------------------------------------
(* ChartPanel's summary strip *)

Metrics == {"deforestationRate", "heatIslands", "ndviChange", "confidence"}

\* The literals '3.8', '5', '-0.13' and '94', in hundredths.
SummaryFallback ==
    [deforestationRate |-> 380, heatIslands |-> 500, ndviChange |-> 0 - 13,
     confidence |-> 9400]

\* (mutant) a missing metric shown as 0
OrElseZero(results, field, fallback) ==
    IF field \in DOMAIN results /\ results[field] # 0
       THEN results[field]
       ELSE 0

\* results?.field || fallback: a missing field is undefined, and undefined
\* and 0 are falsy.
OrElse(results, field, fallback) ==
    IF field \in DOMAIN results /\ results[field] # 0
       THEN results[field]
       ELSE fallback

\* {results && (...)}: the strip is there for a result that is not null.
SummaryStrip(results) ==
    IF results = Null
       THEN [rendered |-> FALSE]
       ELSE [rendered |-> TRUE,
             values |-> [m \in Metrics |-> OrElse(results, m, SummaryFallback[m])]]

-----------------------------------------------------------------------------
(* ChartPanel's charts.  Dates are <<year, month>>, values in hundredths. *)

deforestationData ==
    <<[date |-> <<2023, 1>>, forestCover |-> 9500],
      [date |-> <<2023, 3>>, forestCover |-> 9450],
      [date |-> <<2023, 5>>, forestCover |-> 9380],
      [date |-> <<2023, 7>>, forestCover |-> 9320],
      [date |-> <<2023, 9>>, forestCover |-> 9250],
      [date |-> <<2023, 11>>, forestCover |-> 9180],
      [date |-> <<2024, 1>>, forestCover |-> 9120]>>

ndviData ==
    <<[date |-> <<2023, 1>>, ndvi |-> 82],
      [date |-> <<2023, 3>>, ndvi |-> 80],
      [date |-> <<2023, 5>>, ndvi |-> 78],
      [date |-> <<2023, 7>>, ndvi |-> 75],
      [date |-> <<2023, 9>>, ndvi |-> 73],
      [date |-> <<2023, 11>>, ndvi |-> 71],
      [date |-> <<2024, 1>>, ndvi |-> 69]>>

temperatureData ==
    <<[range |-> "25-28", count |-> 1500],
      [range |-> "28-31", count |-> 2500],
      [range |-> "31-34", count |-> 3500],
      [range |-> "34-37", count |-> 2000],
      [range |-> "37-40", count |-> 1000],
      [range |-> ">40", count |-> 500]>>

riskData ==
    <<[name |-> "Low Risk", value |-> 3000, color |-> "#10B981"],
      [name |-> "Medium Risk", value |-> 4500, color |-> "#F59E0B"],
      [name |-> "High Risk", value |-> 2500, color |-> "#EF4444"]>>

\* The data prop of the chart drawn for a tab: the component's own constant,
\* whatever the results prop holds.
ChartData(results, tab) ==
    CASE tab = "deforestation" -> deforestationData
      [] tab = "vegetation" -> ndviData
      [] tab = "temperature" -> temperatureData
      [] tab = "risk" -> riskData

\* The result supplies a series for the tab.
SuppliesSeries(results, tab) ==
    /\ results # Null
    /\ "series" \in DOMAIN results
    /\ tab \in DOMAIN results.series

\* The view shows this error.
ErrorShown(view, err) == "error" \in DOMAIN view /\ view.error = err

\* The AnalysisResult shape of the wire contract: a JSON object.
IsAnalysisResult(value) == value.json = "object"

\* The canned payload, whenever it was built.
IsCanned(result) == \E t \in 0..(MaxRuns + 1) : result = MockResult(t)

\* A status outside 2xx.
NonSuccess(status) == status < 200 \/ status > 299

\* The step ends call c in failure: a network error or a non-success status.
TransportFailure(c) ==
    \/ FetchReject(c)
    \/ \E status \in Statuses, body \in ResponseBodies :
          NonSuccess(status) /\ FetchRespond(c, status, body)

-----------------------------------------------------------------------------
(* Claims *)

\* C1: in every reachable state at most one analysis request is in flight.
C1_AtMostOneInFlight == Cardinality(pending) <= 1

\* C2: a run triggered while an earlier request is pending is rejected: it
\* issues no request and changes neither the config nor the held result.
C2_SecondRunRejected ==
    [][(pending # {} /\ runs' # runs) =>
          /\ issued' = issued
          /\ pending' = pending
          /\ analysisConfig' = analysisConfig
          /\ analysisResults' = analysisResults]_vars

\* C3: a response is applied as the held result only while the controller is
\* requesting, and only for the request it is requesting: the newest one.
C3_AppliedOnlyForCurrentRequest ==
    [][\A c \in pending :
          ((MockResolve(c) \/ JsonResolve(c)) /\ ~crashed) =>
              (isAnalyzing /\ c.id = issued)]_vars

C5_FailureSurfaced ==
    (error # NoError /\ LayoutShown /\ ~isAnalyzing) => ErrorShown(Render, error)

\* C6: a response with a non-success status ends the call in failure: the
\* error raised (and logged) and the error recorded carry the status code, the
\* body is never read and the held result is not replaced.
C6_NonSuccessFails ==
    [][\A c \in pending, status \in Statuses, body \in ResponseBodies :
          (NonSuccess(status) /\ FetchRespond(c, status, body)) =>
              /\ \A d \in pending' : d.id # c.id
              /\ logged' = [text |-> "HTTP error! status: ", status |-> status]
              /\ (crashed \/ error' = logged')
              /\ analysisResults' = analysisResults]_vars

\* C6 witness: a 404 answered the second run; its error is recorded and the
\* first run's result is still held.
C6_Witness ==
    /\ error = [text |-> "HTTP error! status: ", status |-> 404]
    /\ logged = error
    /\ analysisResults = ServerResult
    /\ pending = {}

\* C7: nothing is applied from a response that does not parse into the
\* AnalysisResult shape: the held result is null or has that shape.
C7_OnlyResultsApplied ==
    analysisResults = Null \/ IsAnalysisResult(analysisResults)

\* C8: with the dev switch off the canned result is never held, and every
\* network error or non-success status ends its call in failure, with the
\* error recorded and the held result untouched.
C8_NoSilentMock ==
    [][~dev =>
          /\ ~IsCanned(analysisResults')
          /\ \A c \in pending : TransportFailure(c) =>
                /\ \A d \in pending' : d.id # c.id
                /\ logged' # NoError
                /\ (crashed \/ error' = logged')
                /\ analysisResults' = analysisResults]_vars

\* C8 witness: a production build whose second request met a network error:
\* the failure is recorded and the real result of the first run is held.
C8_Witness ==
    /\ ~dev
    /\ logged = NetworkError /\ error = NetworkError
    /\ analysisResults = ServerResult
    /\ issued = 2 /\ pending = {}

\* C9: an edit through updateConfig or updateFeature keeps every config field,
\* and every feature flag, that the edit does not name.
C9_EditsKeepOtherFields ==
    [][/\ \A area \in Areas : SelectArea(area) =>
             /\ analysisConfig'.dateRange = analysisConfig.dateRange
             /\ analysisConfig'.features = analysisConfig.features
       /\ \A value \in DateInputs : EditStart(value) =>
             /\ analysisConfig'.aoi = analysisConfig.aoi
             /\ analysisConfig'.features = analysisConfig.features
             /\ analysisConfig'.dateRange.end = analysisConfig.dateRange.end
       /\ \A value \in DateInputs : EditEnd(value) =>
             /\ analysisConfig'.aoi = analysisConfig.aoi
             /\ analysisConfig'.features = analysisConfig.features
             /\ analysisConfig'.dateRange.start = analysisConfig.dateRange.start
       /\ \A feature \in Features : ToggleFeature(feature) =>
             /\ analysisConfig'.aoi = analysisConfig.aoi
             /\ analysisConfig'.dateRange = analysisConfig.dateRange
             /\ \A g \in Features \ {feature} :
                   analysisConfig'.features[g] = analysisConfig.features[g]]_vars

\* C9 witness: an area, a start date and a flag have been edited in turn, and
\* each edit is still there with the untouched fields at their initial values.
C9_Witness ==
    /\ analysisConfig.aoi = "jakarta"
    /\ analysisConfig.dateRange.start = NewDate(NowDay - YearDays)
    /\ analysisConfig.dateRange.end = Now
    /\ ~analysisConfig.features["vegetation"]
    /\ analysisConfig.features["deforestation"]
    /\ analysisConfig.features["heatIslands"]

\* C10: in every reachable state of the running app the config has
\* dateRange.start <= dateRange.end.
C10_DateOrder ==
    ~crashed => analysisConfig.dateRange.start <= analysisConfig.dateRange.end


\* C11: a date edit that would set start later than end is rejected and leaves
\* the config as it was.
C11_InvertedRangeRejected ==
    [][\A value \in DateInputs \ {EmptyValue} :
          /\ (EditStart(value) /\ NewDate(value) > analysisConfig.dateRange.end)
                => analysisConfig' = analysisConfig
          /\ (EditEnd(value) /\ analysisConfig.dateRange.start > NewDate(value))
                => analysisConfig' = analysisConfig]_vars

\* C12: a run sends the config as it is when the run is triggered, and the
\* body of a request in flight never changes afterwards, whatever is edited.
C12_RequestCarriesConfigAtRun ==
    [][/\ (runs' # runs) =>
             \E c \in pending' :
                /\ c \notin pending
                /\ pending' = pending \cup {c}
                /\ c.options.body = Stringify(analysisConfig)
       /\ \A c \in pending : \A d \in pending' :
             (d.id = c.id) => (d.options.body = c.options.body)]_vars

\* C12 witness: the second request is in flight with the config it was run
\* with (jakarta), and the config has been edited since (california).
C12_Witness ==
    /\ analysisConfig.aoi = "california"
    /\ \E c \in pending : c.id = 2 /\ c.options.body.aoi = "jakarta"

\* A step that is a config edit of the ControlBar.
ConfigEdit ==
    \/ \E area \in Areas : SelectArea(area)
    \/ \E value \in DateInputs : EditStart(value)
    \/ \E value \in DateInputs : EditEnd(value)
    \/ \E feature \in Features : ToggleFeature(feature)

C14_SuccessReplacesResult ==
    [][\A c \in pending :
          /\ (JsonResolve(c) /\ ~crashed) =>
                analysisResults' = c.response.body.value
          /\ (MockResolve(c) /\ ~crashed) =>
                analysisResults' = MockResult(clock')]_vars

\* C14 witness: two runs have succeeded and the held result is the empty
\* object of the one that resolved last.
C14_Witness ==
    /\ issued = 2 /\ pending = {} /\ ~crashed
    /\ logged = NoError
    /\ analysisResults = EmptyObject


\* C15: a switch of activeLayer or of activeTab issues no request and leaves
\* the config, the held result and the analyzing flag unchanged.
C15_SelectorsAreLocal ==
    [][((\E layer \in Layers : SetActiveLayer(layer))
          \/ (\E tab \in Tabs : SetActiveTab(tab))) =>
          UNCHANGED <<issued, runs, pending, analysisConfig, analysisResults,
                      isAnalyzing, loading, error>>]_vars

\* C15 witness: both selectors have been switched while a result is held.
C15_Witness ==
    /\ PanelsMounted
    /\ activeLayer = "ndvi" /\ activeTab = "risk"
    /\ analysisResults # Null
    /\ issued = 1 /\ pending = {}

\* C16: MapPanel always draws the region's polygon first; it draws a second
\* polygon, the result's deforestation geometry with its area in the popup,
\* exactly when the result is not null, the layer is deforestation and the
\* result has a deforestation field.
C16_OverlayIffDeforestation ==
    PanelsMounted =>
       LET scene == MapPanel(analysisResults, analysisConfig, activeLayer)
           present == /\ analysisResults # Null
                      /\ activeLayer = "deforestation"
                      /\ "deforestation" \in DOMAIN analysisResults
       IN  /\ scene.polygons[1].positions =
                 areaCoordinates[analysisConfig.aoi].polygon
           /\ present =>
                 /\ Len(scene.polygons) = 2
                 /\ scene.polygons[2].positions =
                       analysisResults.deforestation.coordinates
                 /\ scene.polygons[2].popup = analysisResults.deforestation.area
           /\ ~present => Len(scene.polygons) = 1

\* C16 witness: the canned result is held, the layer is deforestation and the
\* overlay is on the map.
C16_Witness ==
    /\ PanelsMounted
    /\ activeLayer = "deforestation"
    /\ "deforestation" \in DOMAIN analysisResults
    /\ Len(MapPanel(analysisResults, analysisConfig, activeLayer).polygons) = 2

\* C17: config.aoi is always one of the three catalog ids, so MapPanel's
\* center, zoom and polygon are those of that region's own entry.
C17_AoiInCatalog ==
    /\ analysisConfig.aoi \in {"amazon", "jakarta", "california"}
    /\ analysisConfig.aoi \in DOMAIN areaCoordinates
    /\ currentArea(analysisConfig) = areaCoordinates[analysisConfig.aoi]

\* C17 witness: california is selected and MapPanel is centered on it.
C17_Witness ==
    /\ analysisConfig.aoi = "california"
    /\ LayoutShown
    /\ MapPanel(analysisResults, analysisConfig, activeLayer).center
          = <<3750, 0 - 12100>>

\* C18: for a result that is not null, the summary strip shows the value of
\* every metric the result has, the value 0 included.
C18_SummaryShowsOwnValues ==
    (PanelsMounted /\ analysisResults # Null) =>
       \A m \in Metrics :
          (m \in DOMAIN analysisResults) =>
             SummaryStrip(analysisResults).values[m] = analysisResults[m]

\* C19: for a result that is not null, a metric the result lacks is shown as
\* its fallback literal: 3.8, 5, -0.13, 94.
C19_SummaryFallbacks ==
    (PanelsMounted /\ analysisResults # Null) =>
       LET strip == SummaryStrip(analysisResults)
           literal == [deforestationRate |-> 380, heatIslands |-> 500,
                       ndviChange |-> 0 - 13, confidence |-> 9400]
       IN  /\ strip.rendered
           /\ DOMAIN strip.values = Metrics
           /\ \A m \in Metrics :
                 (m \notin DOMAIN analysisResults) => strip.values[m] = literal[m]

\* C19 witness: the empty object is the held result and the panels show it.
C19_Witness ==
    /\ PanelsMounted
    /\ analysisResults = EmptyObject

\* C20: in a development build every run that resolves, whatever config it
\* was run with, leaves the canned metrics 3.8, 5, -0.13, 94 as the held
\* result, and the summary strip shows these four values.
C20_MockResultIsCanned ==
    [][\A c \in pending :
          (MockResolve(c) /\ ~crashed) =>
             /\ analysisResults'.deforestationRate = 380
             /\ analysisResults'.heatIslands = 500
             /\ analysisResults'.ndviChange = 0 - 13
             /\ analysisResults'.confidence = 9400
             /\ SummaryStrip(analysisResults').rendered
             /\ SummaryStrip(analysisResults').values =
                   [deforestationRate |-> 380, heatIslands |-> 500,
                    ndviChange |-> 0 - 13, confidence |-> 9400]]_vars

\* C20 witness: a run made from the ControlBar with another region, another
\* start date and every feature off has resolved, and the canned result is
\* shown.
C20_Witness ==
    /\ dev /\ PanelsMounted
    /\ issued = 2 /\ pending = {}
    /\ analysisConfig.aoi = "jakarta"
    /\ analysisConfig.dateRange.start = NewDate(NowDay - YearDays)
    /\ \A f \in Features : ~analysisConfig.features[f]
    /\ IsCanned(analysisResults)
    /\ SummaryStrip(analysisResults).values["confidence"] = 9400


\* C21: the chart of the active tab plots the result's own series when the
\* result supplies one for that tab, and the placeholder dataset only when
\* the result is null or has no such series.
C21_ChartPlotsOwnSeries ==
    PanelsMounted =>
       (ChartData(analysisResults, activeTab) =
           IF SuppliesSeries(analysisResults, activeTab)
              THEN analysisResults.series[activeTab]
              ELSE ChartData(Null, activeTab))


\* C22: there is no automatic retry.  Never more requests have been issued
\* than run actions made, and every step that issues a request is a run
\* action of the user (Hero's start or the ControlBar's Run), which issues
\* exactly one; so after a failure nothing is issued until the next run.
C22_NoAutomaticRetry ==
    /\ [](issued <= runs)
    /\ [][issued' # issued =>
             /\ HeroStart \/ ControlBarRun
             /\ issued' = issued + 1
             /\ runs' = runs + 1]_vars

\* C22 witness: a request failed, and the one request issued since is the
\* user's second run from the ControlBar.
C22_Witness ==
    /\ logged # NoError
    /\ LayoutShown
    /\ runs = 2 /\ issued = 2
    /\ isAnalyzing
    /\ \E c \in pending : c.id = 2


\* C23: every request a run issues is a POST to /api/analyze whose body is
\* the serialized config, with exactly the keys aoi, dateRange (start, end)
\* and features (deforestation, heatIslands, vegetation).
C23_RequestShape ==
    \A c \in pending :
       LET init == FetchInit(c.options) IN
       /\ c.url = "/api/analyze"
       /\ "method" \in DOMAIN init /\ init.method = "POST"
       /\ "body" \in DOMAIN init
       /\ DOMAIN init.body = {"aoi", "dateRange", "features"}
       /\ init.body.aoi \in {"amazon", "jakarta", "california"}
       /\ DOMAIN init.body.dateRange = {"start", "end"}
       /\ DOMAIN init.body.features =
             {"deforestation", "heatIslands", "vegetation"}
       /\ \A f \in DOMAIN init.body.features : init.body.features[f] \in BOOLEAN

\* C23 witness: the request of a run made after the region, both dates and
\* every flag were edited is in flight.
C23_Witness ==
    \E c \in pending :
       /\ c.id = 2 /\ c.phase = "fetch"
       /\ c.options.body.aoi = "california"
       /\ c.options.body.dateRange.start = toISOString(NewDate(NowDay - YearDays))
       /\ c.options.body.dateRange.end = toISOString(NewDate(NowDay + 1))
       /\ \A f \in Features : ~c.options.body.features[f]


\* C24: when every issued request resolves or rejects in the end, every run
\* ends: whenever the analyzing flag is set it is cleared again later.
C24_RunsEnd == isAnalyzing ~> ~isAnalyzing


\* The configs reached from a set of configs by at most one toggle.
C25_OneToggle(S) == S \cup {Toggled(config, f) : config \in S, f \in Features}

\* C25: the three feature flags are independent.  A toggle flips its flag
\* and leaves the other two flags, the region and the dates as they were;
\* toggling the same flag twice gives the config back; toggles of two
\* different flags commute; and all eight combinations of the flags can be
\* had by toggles from the config at hand.
C25_FlagsIndependent ==
    /\ [][\A f \in Features :
            ToggleFeature(f) =>
               /\ analysisConfig'.features[f] = ~analysisConfig.features[f]
               /\ \A g \in Features \ {f} :
                     analysisConfig'.features[g] = analysisConfig.features[g]
               /\ analysisConfig'.aoi = analysisConfig.aoi
               /\ analysisConfig'.dateRange = analysisConfig.dateRange]_vars
    /\ [](\A f \in Features :
            Toggled(Toggled(analysisConfig, f), f) = analysisConfig)
    /\ [](\A f, g \in Features :
            Toggled(Toggled(analysisConfig, f), g) =
               Toggled(Toggled(analysisConfig, g), f))
    /\ []({config.features :
              config \in C25_OneToggle(C25_OneToggle(C25_OneToggle({analysisConfig})))}
           = [Features -> BOOLEAN])

\* C25 witness: two of the three flags have been switched off, the third is
\* still on.
C25_Witness ==
    /\ LayoutShown
    /\ ~analysisConfig.features["deforestation"]
    /\ analysisConfig.features["heatIslands"]
    /\ ~analysisConfig.features["vegetation"]


\* C26: every run resets both selectors.  A run action removes MapPanel and
\* ChartPanel, they are absent while the analyzing flag is set, and whenever
\* they are shown again activeLayer is satellite and activeTab is
\* deforestation.
C26_RunResetsSelectors ==
    /\ [][runs' # runs =>
             (activeLayer' = "satellite" /\ activeTab' = "deforestation")]_vars
    /\ [](isAnalyzing =>
             (activeLayer = "satellite" /\ activeTab = "deforestation"))
    /\ [][(~PanelsMounted /\ PanelsMounted') =>
             (activeLayer' = "satellite" /\ activeTab' = "deforestation")]_vars

\* C26 witness: the second run has ended and the panels are shown again, with
\* both selectors at their first values.
C26_Witness ==
    /\ PanelsMounted
    /\ runs = 2 /\ issued = 2 /\ pending = {}
    /\ analysisResults # Null
    /\ activeLayer = "satellite" /\ activeTab = "deforestation"


\* C27: showHero is true until the first run action, false from it on and
\* never true again; it is false whenever a request is pending or a result
\* is held.
C27_ShowHeroMonotone ==
    /\ [](showHero <=> runs = 0)
    /\ [][showHero' => showHero]_vars
    /\ []((pending # {} \/ analysisResults # Null) => ~showHero)

\* C27 witness: a result is held, a second run is in flight and the Hero is
\* not shown.
C27_Witness ==
    /\ ~showHero
    /\ analysisResults # Null
    /\ runs = 2
    /\ pending # {}


\* C28: the request fetchData sends carries the default header Content-Type:
\* application/json merged with the caller's headers: every caller header
\* with the caller's value, and the default unless the caller gave a header
\* of that name.
C28_DefaultHeaderMerged ==
    \A c \in pending :
       LET sent == FetchInit(c.options).headers
           caller == HeadersOf(c.options)
       IN  /\ DOMAIN sent = DOMAIN caller \cup {"Content-Type"}
           /\ \A name \in DOMAIN caller : sent[name] = caller[name]
           /\ ("Content-Type" \notin DOMAIN caller) =>
                 sent["Content-Type"] = "application/json"

====
